---- MODULE Spec2Model ----
(***************************************************************************)
(* Model of assignment.py: helper functions over a spaCy dependency parse. *)
(*                                                                         *)
(* A Doc is a sequence of tokens; token k of a Doc carries a text, a       *)
(* dependency label (dep) and the position of its head in the same Doc (a  *)
(* root is its own head).  A Token object is a reference <<doc, i>> into   *)
(* the heap of Doc objects: two Token objects are equal only when they     *)
(* belong to the same Doc object and have the same position.               *)
(***************************************************************************)
EXTENDS Integers, Sequences, FiniteSets, TLC

VARIABLES
    pc,     \* "import" until line 4 has run, then "ready" ("failed" if the load
            \* raised); "returned" while the caller holds a value just returned
    nlp,    \* the module-level parser handle: the parse it gives to each sentence
    heap,   \* the live Doc objects, by object identity
    ret,    \* the last call: operation, argument, Doc it created, return value
    kept    \* an earlier return value the caller still holds

vars == <<pc, nlp, heap, ret, kept>>

\* ------------------------------------------------------------------ bounds

\* The longest parse, in tokens.
MaxLen == 3

\* The longest candidate word list given to check_subtree.
MaxWords == 2

\* ------------------------------------------------- the parser's vocabulary

Words == {"a", "b"}

RootLabel == "ROOT"

\* The readings of the words: a word heads the sentence, or hangs from its
\* head by one of the arcs listed for it.  Every text can come with a role
\* label and without one, and every label with some text.
Lexicon ==
    {[text |-> "a", dep |-> "ROOT"], [text |-> "b", dep |-> "ROOT"],
     [text |-> "a", dep |-> "nsubj"], [text |-> "b", dep |-> "dobj"],
     [text |-> "a", dep |-> "dative"], [text |-> "b", dep |-> "iobj"],
     [text |-> "a", dep |-> "prep"]}

\* The sentences the model calls the functions with: the empty string, which
\* the parser turns into a Doc without tokens, and a sentence with words.
Sentences == {"", "s"}

\* ------------------------------------------------------- sequence helpers

RECURSIVE Reverse(_)
Reverse(s) == IF s = <<>> THEN <<>> ELSE Append(Reverse(Tail(s)), Head(s))

\* -------------------------------------------------- what the parser yields

\* k applications of the head reference, starting at position i.
RECURSIVE HeadPow(_, _, _)
HeadPow(heads, i, k) == IF k = 0 THEN i ELSE HeadPow(heads, heads[i], k - 1)

\* Every position reaches a self-headed position: no cycle but a root's.
IsForest(heads) ==
    \A i \in DOMAIN heads :
        LET top == HeadPow(heads, i, Len(heads)) IN heads[top] = top

\* The positions whose head chain passes through i, i included.
Under(heads, i) ==
    {j \in DOMAIN heads : \E k \in 0..Len(heads) : HeadPow(heads, j, k) = i}

\* The arc-eager parser of en_core_web_sm builds projective trees: the
\* positions under a token are contiguous.  (On a parse that is not
\* projective token.subtree, which yields lefts, token, rights, would leave
\* sentence order.)
IsProjective(heads) ==
    \A i \in DOMAIN heads :
        \A a, b \in Under(heads, i) :
            \A c \in a..b : c \in Under(heads, i)

HeadsOf(n) ==
    {heads \in [1..n -> 1..n] : IsForest(heads) /\ IsProjective(heads)}

\* The parses of n tokens: a root is labelled ROOT, any other token carries
\* the label of the arc from its head.
DocsOf(n) ==
    {[k \in 1..n |-> [text |-> x[2][k].text, dep |-> x[2][k].dep, head |-> x[1][k]]] :
        x \in {y \in HeadsOf(n) \X [1..n -> Lexicon] :
                  \A k \in 1..n : (y[2][k].dep = RootLabel) <=> (y[1][k] = k)}}

\* The loaded models: the empty string has no tokens, a sentence has some.
Models ==
    {[s \in Sentences |-> IF s = "" THEN <<>> ELSE d] :
        d \in UNION {DocsOf(n) : n \in 1..MaxLen}}

NotLoaded == "not loaded"

NoCall == [op |-> "none"]

\* ------------------------------------------------------ the token objects

Token(d, i) == [doc |-> d, i |-> i]

\* for token in doc
TokensOf(h, d) == [k \in 1..Len(h[d]) |-> Token(d, k)]

text(h, t) == h[t.doc][t.i].text

dep_(h, t) == h[t.doc][t.i].dep

head(h, t) == Token(t.doc, h[t.doc][t.i].head)

\* The Doc objects a held value refers to.
LiveIds(k) == IF k.op = "none" THEN {} ELSE {k.doc}

\* A new object takes the first identity that is free.
FreshId(k) == IF 1 \in LiveIds(k) THEN 2 ELSE 1

\* Parse with one buffer behind every Doc: the new parse overwrites the Docs
\* that are still referred to.
ParseInPlace(h, k, s) ==
    [x \in LiveIds(k) \cup {FreshId(k)} |-> nlp[s]]

\* doc = nlp(sentence): a new Doc object, beside the Docs still referred to.
Parse(h, k, s) ==
    LET d == FreshId(k)
    IN  [x \in LiveIds(k) \cup {d} |-> IF x = d THEN nlp[s] ELSE h[x]]

\* ------------------------------------------------------------ path_to_token

\* Walk with the loop test one head too far: it stops below the root.
RECURSIVE WalkStopsEarly(_, _, _, _)
WalkStopsEarly(h, token, path, visited) ==
    IF head(h, head(h, token)) # head(h, token)
    THEN WalkStopsEarly(h, head(h, token), Append(path, dep_(h, token)),
                        Append(visited, token))
    ELSE [path |-> Append(path, dep_(h, token)), visited |-> Append(visited, token)]

\* The while loop: the labels collected and the tokens the loop stood on.
RECURSIVE Walk(_, _, _, _)
Walk(h, token, path, visited) ==
    IF head(h, token) # token
    THEN Walk(h, head(h, token), Append(path, dep_(h, token)), Append(visited, token))
    ELSE [path |-> Append(path, dep_(h, token)), visited |-> Append(visited, token)]

\* path_to_token without the final reversal.
path_to_token_unreversed(h, token) == Walk(h, token, <<>>, <<>>).path

path_to_token(h, token) == Reverse(Walk(h, token, <<>>, <<>>).path)

\* ------------------------------------------------------------- extract_path

\* extract_path with paths a module-level dict: the keys of earlier calls stay.
PathsOfShared(h, d) ==
    [t \in UNION {{Token(x, k) : k \in 1..Len(h[x])} : x \in DOMAIN h} |->
        path_to_token(h, t)]

PathsOf(h, d) ==
    LET toks == TokensOf(h, d)
    IN  [t \in {toks[k] : k \in DOMAIN toks} |-> path_to_token(h, t)]

\* ---------------------------------------------------------- token.subtree

\* token.lefts and token.rights: the tokens of the Doc whose head is the
\* token, before it and after it, in the order of the Doc.
lefts(h, token) ==
    SelectSeq(TokensOf(h, token.doc),
              LAMBDA u : u.i < token.i /\ head(h, u) = token)

rights(h, token) ==
    SelectSeq(TokensOf(h, token.doc),
              LAMBDA u : u.i > token.i /\ head(h, u) = token)

\* token.subtree: the subtrees of the lefts, the token, the subtrees of the
\* rights.
RECURSIVE subtree(_, _)
RECURSIVE YieldFrom(_, _)
\* YieldFrom that yields the children and not their subtrees.
YieldFromChildrenOnly(h, children) == children

YieldFrom(h, children) ==
    IF children = <<>> THEN <<>>
    ELSE subtree(h, Head(children)) \o YieldFrom(h, Tail(children))

\* subtree that yields the token before its lefts.
subtreeSelfFirst(h, token) ==
    <<token>> \o YieldFrom(h, lefts(h, token)) \o YieldFrom(h, rights(h, token))

subtree(h, token) ==
    YieldFrom(h, lefts(h, token)) \o <<token>> \o YieldFrom(h, rights(h, token))

\* ---------------------------------------------------------- extract_subtree

SubtreesOf(h, d) ==
    LET toks == TokensOf(h, d)
    IN  [t \in {toks[k] : k \in DOMAIN toks} |-> subtree(h, t)]

\* ------------------------------------------------------------ check_subtree

\* subtrees.values(): a dict keeps the order its keys were inserted in.
Values(h, d, subtrees) ==
    LET toks == TokensOf(h, d) IN [k \in DOMAIN toks |-> subtrees[toks[k]]]

\* for token, word in zip(st, words): zip stops with the shorter of the two.
ZipMatches(h, st, words) ==
    LET n == IF Len(st) < Len(words) THEN Len(st) ELSE Len(words)
    IN  \A k \in 1..n : text(h, st[k]) = words[k]

\* ScanSubtrees without the length test: zip compares a prefix.
RECURSIVE ScanSubtreesNoLength(_, _, _)
ScanSubtreesNoLength(h, sts, words) ==
    IF sts = <<>> THEN FALSE
    ELSE IF ZipMatches(h, Head(sts), words) THEN TRUE
    ELSE ScanSubtreesNoLength(h, Tail(sts), words)

\* for st in subtrees.values(): the first subtree that matches ends the scan.
RECURSIVE ScanSubtrees(_, _, _)
ScanSubtrees(h, sts, words) ==
    IF sts = <<>> THEN FALSE
    ELSE IF Len(Head(sts)) # Len(words) THEN ScanSubtrees(h, Tail(sts), words)
    ELSE IF ZipMatches(h, Head(sts), words) THEN TRUE
    ELSE ScanSubtrees(h, Tail(sts), words)

\* ----------------------------------------------------------------- get_head

\* return None
None == Token(0, 0)

\* ScanHead that takes the first token for the head.
ScanHeadFirstToken(h, toks) == IF toks = <<>> THEN None ELSE Head(toks)

RECURSIVE ScanHead(_, _)
ScanHead(h, toks) ==
    IF toks = <<>> THEN None
    ELSE IF head(h, Head(toks)) = Head(toks) THEN Head(toks)
    ELSE ScanHead(h, Tail(toks))

\* ---------------------------------------------------- extract_nsubj_dobj_iobj

IsNsubj(h, token) == dep_(h, token) = "nsubj"

IsDobj(h, token) == dep_(h, token) = "dobj"

\* The iobj test with dobj where iobj was meant.
IsIobjOrDobj(h, token) == dep_(h, token) = "dobj" \/ dep_(h, token) = "dative"

IsIobj(h, token) == dep_(h, token) = "iobj" \/ dep_(h, token) = "dative"

\* ScanRoles that keeps one span for a role: the last one found.
RECURSIVE ScanRolesLastWins(_, _, _)
ScanRolesLastWins(h, toks, spans) ==
    IF toks = <<>> THEN spans
    ELSE LET token == Head(toks)
             s1 == IF IsNsubj(h, token)
                   THEN [spans EXCEPT !.nsubj = <<subtree(h, token)>>]
                   ELSE spans
             s2 == IF IsDobj(h, token)
                   THEN [s1 EXCEPT !.dobj = <<subtree(h, token)>>]
                   ELSE s1
             s3 == IF IsIobj(h, token)
                   THEN [s2 EXCEPT !.iobj = <<subtree(h, token)>>]
                   ELSE s2
         IN  ScanRolesLastWins(h, Tail(toks), s3)

RECURSIVE ScanRoles(_, _, _)
ScanRoles(h, toks, spans) ==
    IF toks = <<>> THEN spans
    ELSE LET token == Head(toks)
             s1 == IF IsNsubj(h, token)
                   THEN [spans EXCEPT !.nsubj = Append(@, subtree(h, token))]
                   ELSE spans
             s2 == IF IsDobj(h, token)
                   THEN [s1 EXCEPT !.dobj = Append(@, subtree(h, token))]
                   ELSE s1
             s3 == IF IsIobj(h, token)
                   THEN [s2 EXCEPT !.iobj = Append(@, subtree(h, token))]
                   ELSE s2
         IN  ScanRoles(h, Tail(toks), s3)

\* The candidate word lists check_subtree is called with.
WordLists == UNION {[1..n -> Words] : n \in 0..MaxWords}

\* The tokens the loop of path_to_token stood on, for each token of the Doc.
VisitedOf(h, d) ==
    LET toks == TokensOf(h, d)
    IN  [t \in {toks[k] : k \in DOMAIN toks} |-> Walk(h, t, <<>>, <<>>).visited]

\* ----------------------------------------------------------------- actions

Init ==
    /\ pc = "import"
    /\ nlp = NotLoaded
    /\ heap = <<>>
    /\ ret = NoCall
    /\ kept = NoCall

\* nlp = spacy.load("en_core_web_sm"), at import; the functions exist only
\* once it has returned.
Import ==
    /\ pc = "import"
    /\ \/ /\ nlp' \in Models
          /\ pc' = "ready"
       \/ /\ pc' = "failed"
          /\ nlp' = nlp
    /\ UNCHANGED <<heap, ret, kept>>

extract_path(sentence) ==
    /\ pc = "ready"
    /\ LET h == Parse(heap, kept, sentence)
           d == FreshId(kept)
       IN  /\ heap' = h
           /\ ret' = [op |-> "extract_path", arg |-> sentence, doc |-> d,
                      val |-> PathsOf(h, d), visited |-> VisitedOf(h, d)]
    /\ pc' = "returned"
    /\ UNCHANGED <<nlp, kept>>

extract_subtree(sentence) ==
    /\ pc = "ready"
    /\ LET h == Parse(heap, kept, sentence)
           d == FreshId(kept)
       IN  /\ heap' = h
           /\ ret' = [op |-> "extract_subtree", arg |-> sentence, doc |-> d,
                      val |-> SubtreesOf(h, d)]
    /\ pc' = "returned"
    /\ UNCHANGED <<nlp, kept>>

check_subtree(sentence, words) ==
    /\ pc = "ready"
    /\ LET h == Parse(heap, kept, sentence)
           d == FreshId(kept)
       IN  /\ heap' = h
           /\ ret' = [op |-> "check_subtree", arg |-> sentence, doc |-> d,
                      words |-> words,
                      val |-> ScanSubtrees(h, Values(h, d, SubtreesOf(h, d)), words)]
    /\ pc' = "returned"
    /\ UNCHANGED <<nlp, kept>>

get_head(span) ==
    /\ pc = "ready"
    /\ LET h == Parse(heap, kept, span)
           d == FreshId(kept)
       IN  /\ heap' = h
           /\ ret' = [op |-> "get_head", arg |-> span, doc |-> d,
                      val |-> ScanHead(h, TokensOf(h, d))]
    /\ pc' = "returned"
    /\ UNCHANGED <<nlp, kept>>

extract_nsubj_dobj_iobj(sentence) ==
    /\ pc = "ready"
    /\ LET h == Parse(heap, kept, sentence)
           d == FreshId(kept)
       IN  /\ heap' = h
           /\ ret' = [op |-> "extract_nsubj_dobj_iobj", arg |-> sentence, doc |-> d,
                      val |-> ScanRoles(h, TokensOf(h, d),
                                        [nsubj |-> <<>>, dobj |-> <<>>, iobj |-> <<>>])]
    /\ pc' = "returned"
    /\ UNCHANGED <<nlp, kept>>

\* The caller binds the mapping it was just given to a name of its own, to
\* compare it with a later one.
Keep ==
    /\ pc = "returned"
    /\ ret.op \in {"extract_path", "extract_subtree"}
    /\ kept = NoCall
    /\ kept' = ret
    /\ ret' = NoCall
    /\ heap' = [x \in {ret.doc} |-> heap[x]]
    /\ pc' = "ready"
    /\ UNCHANGED nlp

\* The caller is done with the value (the script prints it): the Doc behind
\* it goes, unless the mapping kept refers to it.
Drop ==
    /\ pc = "returned"
    /\ ret' = NoCall
    /\ heap' = [x \in DOMAIN heap \ ({ret.doc} \ LiveIds(kept)) |-> heap[x]]
    /\ pc' = "ready"
    /\ UNCHANGED <<nlp, kept>>

Next ==
    \/ Import
    \/ \E s \in Sentences : extract_path(s)
    \/ \E s \in Sentences : extract_subtree(s)
    \/ \E s \in Sentences, words \in WordLists : check_subtree(s, words)
    \/ \E s \in Sentences : get_head(s)
    \/ \E s \in Sentences : extract_nsubj_dobj_iobj(s)
    \/ Keep
    \/ Drop

Spec == Init /\ [][Next]_vars

\* ------------------------------------------- what the claims are stated in

\* The Doc the last call parsed, and the head positions of its tokens.
LastDoc == heap[ret.doc]

HeadsIn(doc) == [k \in DOMAIN doc |-> doc[k].head]

Roots(doc) == {k \in DOMAIN doc : doc[k].head = k}

\* A well-formed dependency tree: exactly one self-headed token.
WellFormed(doc) == Cardinality(Roots(doc)) = 1

\* The number of head hops from position i to the first self-headed position.
Depth(doc, i) ==
    CHOOSE k \in 0..Len(doc) :
        /\ HeadPow(HeadsIn(doc), i, k) \in Roots(doc)
        /\ \A j \in 0..(k - 1) : HeadPow(HeadsIn(doc), i, j) \notin Roots(doc)

\* The elements of a set of positions, in sentence order.
RECURSIVE InOrder(_)
InOrder(S) ==
    IF S = {} THEN <<>>
    ELSE LET m == CHOOSE x \in S : \A y \in S : x <= y
         IN  <<m>> \o InOrder(S \ {m})

\* Token i of the Doc with its transitive dependents, as Token objects of Doc
\* d in sentence order.
Span(doc, d, i) ==
    LET ps == InOrder(Under(HeadsIn(doc), i))
    IN  [j \in DOMAIN ps |-> Token(d, ps[j])]

\* The spans of the tokens that carry one of the labels, in sentence order of
\* those tokens.
SpansOf(doc, d, labels) ==
    LET ps == InOrder({k \in DOMAIN doc : doc[k].dep \in labels})
    IN  [j \in DOMAIN ps |-> Span(doc, d, ps[j])]

AllTokens(doc, d) == {Token(d, k) : k \in DOMAIN doc}

\* ------------------------------------------------------------------ claims

\* C1: for every token t of a well-formed tree, the path extract_path gives
\* to t holds the labels of t's head chain from the root down to t: its
\* length is t's depth plus one, its first element the root's label, its last
\* element t's own label (for the root, the one-element list of its label).
C1_PathRootToToken ==
    (ret.op = "extract_path" /\ WellFormed(LastDoc)) =>
        /\ DOMAIN ret.val = AllTokens(LastDoc, ret.doc)
        /\ \A k \in DOMAIN LastDoc :
            LET p == ret.val[Token(ret.doc, k)]
                n == Depth(LastDoc, k) + 1
            IN  /\ Len(p) = n
                /\ p[1] = LastDoc[CHOOSE r \in Roots(LastDoc) : TRUE].dep
                /\ p[n] = LastDoc[k].dep
                /\ \A j \in 1..n :
                       p[j] = LastDoc[HeadPow(HeadsIn(LastDoc), k, n - j)].dep
                /\ (k \in Roots(LastDoc) => p = <<LastDoc[k].dep>>)

\* A path of three labels was returned: a token two hops below the root.
C1_Witness ==
    /\ ret.op = "extract_path"
    /\ WellFormed(LastDoc)
    /\ \E k \in DOMAIN LastDoc :
          /\ Depth(LastDoc, k) = 2
          /\ Len(ret.val[Token(ret.doc, k)]) = 3
          /\ LastDoc[k].dep # LastDoc[LastDoc[k].head].dep

\* C2: check_subtree returns true exactly when some token's subtree, read in
\* sentence order, is as long as the word list and has the words as its
\* texts, position by position.
C2_CheckSubtreeIff ==
    ret.op = "check_subtree" =>
        (ret.val <=>
            \E k \in DOMAIN LastDoc :
                LET st == InOrder(Under(HeadsIn(LastDoc), k))
                IN  /\ Len(st) = Len(ret.words)
                    /\ \A j \in DOMAIN st : LastDoc[st[j]].text = ret.words[j])

\* Two words matched the subtree of a token that is not the root.
C2_Witness ==
    /\ ret.op = "check_subtree"
    /\ ret.val = TRUE
    /\ Len(ret.words) = 2
    /\ Len(LastDoc) = 3
    /\ ret.words[1] # ret.words[2]

\* C3: extract_nsubj_dobj_iobj lists, in sentence order and one span per
\* token, the subtrees of all nsubj tokens, of all dobj tokens, and of all
\* iobj or dative tokens; a later token never replaces an earlier span.
C3_RoleListsPlural ==
    ret.op = "extract_nsubj_dobj_iobj" =>
        /\ ret.val.nsubj = SpansOf(LastDoc, ret.doc, {"nsubj"})
        /\ ret.val.dobj = SpansOf(LastDoc, ret.doc, {"dobj"})
        /\ ret.val.iobj = SpansOf(LastDoc, ret.doc, {"iobj", "dative"})

\* Two subjects in one sentence, both listed, and an iobj beside a dative.
C3_Witness ==
    /\ ret.op = "extract_nsubj_dobj_iobj"
    /\ Len(ret.val.nsubj) = 2
    /\ ret.val.nsubj[1] # ret.val.nsubj[2]

\* C4: get_head returns a token of the parsed span whose head is itself (the
\* root of a well-formed parse), and None exactly when the span has no
\* self-headed token, as when it has no tokens.
C4_GetHead ==
    ret.op = "get_head" =>
        /\ (ret.val = None) <=> (Roots(LastDoc) = {})
        /\ ret.val # None =>
              /\ ret.val.doc = ret.doc
              /\ ret.val.i \in Roots(LastDoc)
        /\ WellFormed(LastDoc) => Roots(LastDoc) = {ret.val.i}

\* The root found is the last token of a three-token tree.
C4_Witness ==
    /\ ret.op = "get_head"
    /\ WellFormed(LastDoc)
    /\ Len(LastDoc) = 3
    /\ ret.val = Token(ret.doc, 3)

\* C5: extract_subtree maps each token to the token and all its transitive
\* dependents, nothing else and nothing twice, in sentence order.
C5_SubtreeInOrder ==
    ret.op = "extract_subtree" =>
        /\ DOMAIN ret.val = AllTokens(LastDoc, ret.doc)
        /\ \A k \in DOMAIN LastDoc :
              ret.val[Token(ret.doc, k)] = Span(LastDoc, ret.doc, k)

\* A subtree with a dependent of a dependent, the token itself in the middle.
C5_Witness ==
    /\ ret.op = "extract_subtree"
    /\ Len(LastDoc) = 3
    /\ LastDoc[2].head = 2
    /\ LastDoc[1].head = 2
    /\ LastDoc[3].head = 2
    /\ Len(ret.val[Token(ret.doc, 2)]) = 3

\* C6: in a well-formed tree the subtree extract_subtree gives to the root
\* holds every token of the sentence.
C6_RootSubtreeIsSentence ==
    (ret.op = "extract_subtree" /\ WellFormed(LastDoc)) =>
        \A r \in Roots(LastDoc) :
            LET st == ret.val[Token(ret.doc, r)]
            IN  {st[j] : j \in DOMAIN st} = AllTokens(LastDoc, ret.doc)

\* The root's subtree reaches a token two hops below it.
C6_Witness ==
    /\ ret.op = "extract_subtree"
    /\ WellFormed(LastDoc)
    /\ Len(LastDoc) = 3
    /\ \E k \in DOMAIN LastDoc : Depth(LastDoc, k) = 2

\* C7 as stated: two runs of extract_path, or of extract_subtree, on the same
\* sentence return mappings with the same keys and the same value for each
\* key.
C7_SameMappings ==
    (pc = "returned" /\ kept # NoCall /\ kept.op = ret.op /\ kept.arg = ret.arg) =>
        kept.val = ret.val

\* The positions of a list of Token objects.
PositionsOf(st) == [j \in DOMAIN st |-> st[j].i]

\* C7, amended: two runs on the same sentence return mappings that agree
\* position by position: as many keys, one for each position; the keys at a
\* position have the same text, the same path, and subtrees over the same
\* positions.  The keys themselves are Token objects of two different Docs.
C7_SameByPosition ==
    (pc = "returned" /\ kept # NoCall /\ kept.op = ret.op /\ kept.arg = ret.arg) =>
        /\ DOMAIN ret.val = {Token(ret.doc, t.i) : t \in DOMAIN kept.val}
        /\ \A t \in DOMAIN kept.val :
              LET u == Token(ret.doc, t.i)
              IN  /\ text(heap, t) = text(heap, u)
                  /\ ret.op = "extract_path" => kept.val[t] = ret.val[u]
                  /\ ret.op = "extract_subtree" =>
                        PositionsOf(kept.val[t]) = PositionsOf(ret.val[u])

\* A second run on a three-token sentence while the first mapping is held,
\* with a call on the other sentence in between (its Doc took identity 2).
C7_Witness ==
    /\ pc = "returned"
    /\ kept # NoCall
    /\ kept.op = ret.op
    /\ kept.arg = ret.arg
    /\ ret.doc # kept.doc
    /\ Cardinality(DOMAIN kept.val) = 3
    /\ Cardinality(DOMAIN ret.val) = 3

\* C8: the parser handle is loaded once, before any call, and no call changes
\* it; no call changes a token of a parse that is still referred to, nor the
\* mapping the caller holds: a call produces its return value and nothing
\* else.
C8_Frame ==
    [][/\ pc # "import" => (pc' # "import" /\ nlp' = nlp)
       /\ pc' = "returned" =>
             /\ pc = "ready"
             /\ kept' = kept
             /\ DOMAIN heap \subseteq DOMAIN heap'
       /\ \A d \in DOMAIN heap \cap DOMAIN heap' : heap'[d] = heap[d]]_vars

\* A call returned while the caller holds a mapping over another Doc.
C8_Witness ==
    /\ pc = "returned"
    /\ kept # NoCall
    /\ ret.op = "get_head"
    /\ DOMAIN heap = {1, 2}
    /\ heap[1] # heap[2]

\* C9: on a parse that satisfies the tree invariant the walk of path_to_token
\* from a token follows the head references, stands on no token twice, and
\* stops on the first self-headed token, after as many steps as the token is
\* deep.
C9_WalkStopsAtRoot ==
    (ret.op = "extract_path" /\ WellFormed(LastDoc)) =>
        \A k \in DOMAIN LastDoc :
            LET v == ret.visited[Token(ret.doc, k)]
                n == Len(v)
            IN  /\ n = Depth(LastDoc, k) + 1
                /\ v[1] = Token(ret.doc, k)
                /\ \A j \in 1..(n - 1) :
                      /\ v[j + 1] = Token(ret.doc, LastDoc[v[j].i].head)
                      /\ v[j].i \notin Roots(LastDoc)
                /\ v[n].i \in Roots(LastDoc)
                /\ \A i, j \in 1..n : v[i] = v[j] => i = j

\* A walk of two steps: three tokens stood on.
C9_Witness ==
    /\ ret.op = "extract_path"
    /\ WellFormed(LastDoc)
    /\ \E t \in DOMAIN ret.visited : Len(ret.visited[t]) = 3

\* C10: the mapping extract_nsubj_dobj_iobj returns has exactly the keys
\* nsubj, dobj and iobj, each a list, empty when no token carries the role,
\* and the subtree of a token is in at most one place of the three lists.
C10_ThreeListsDisjoint ==
    ret.op = "extract_nsubj_dobj_iobj" =>
        /\ DOMAIN ret.val = {"nsubj", "dobj", "iobj"}
        /\ \A r \in DOMAIN ret.val : DOMAIN ret.val[r] = 1..Len(ret.val[r])
        /\ (\A k \in DOMAIN LastDoc : LastDoc[k].dep # "nsubj") => ret.val.nsubj = <<>>
        /\ (\A k \in DOMAIN LastDoc : LastDoc[k].dep # "dobj") => ret.val.dobj = <<>>
        /\ (\A k \in DOMAIN LastDoc : LastDoc[k].dep \notin {"iobj", "dative"})
              => ret.val.iobj = <<>>
        /\ \A k \in DOMAIN LastDoc :
              Cardinality({x \in {"nsubj", "dobj", "iobj"} \X (1..Len(LastDoc)) :
                              /\ x[2] <= Len(ret.val[x[1]])
                              /\ ret.val[x[1]][x[2]] = Span(LastDoc, ret.doc, k)}) <= 1

\* A sentence of three tokens with an object and neither a subject nor an
\* indirect object.
C10_Witness ==
    /\ ret.op = "extract_nsubj_dobj_iobj"
    /\ Len(LastDoc) = 3
    /\ Len(ret.val.dobj) = 2
    /\ ret.val.nsubj = <<>>
    /\ ret.val.iobj = <<>>

====
